---------------------------- MODULE Spec2Model ----------------------------
(***************************************************************************)
(* A model of PyCO2SYS's unit/scale conversions (PyCO2SYS/convert.py) and  *)
(* of its uncertainty module (PyCO2SYS/uncertainty.py).                    *)
(*                                                                         *)
(* Arithmetic is exact: a real number is a reduced fraction <<n, d>>, and  *)
(* a pH-like quantity is r + log10(m) with r an integer and m a positive   *)
(* fraction, kept in a normal form in which equal reals are equal values.  *)
(* IEEE rounding is not modelled.                                          *)
(***************************************************************************)
EXTENDS Integers, Sequences, FiniteSets, TLC

VARIABLES
    fn,      \* the function of convert.py / uncertainty.py that was called
    args,    \* its arguments
    ret,     \* what it returned or raised, with the locals the claims read
    frame    \* the locals of a running call of uncertainty.inputs

vars == <<fn, args, ret, frame>>

(***************************************************************************)
(* Bounds of the model.                                                    *)
(***************************************************************************)
MaxLen == 3        \* longest option-code array
MaxSize == 3       \* largest array handed to the flatten functions
MaxBatch == 2      \* longest batch handed to pH2allscales
MaxTypeBatch == 2  \* longest batch handed to dcore_dparX__parY
MaxGrads == 2      \* longest list given as grads_of or grads_wrt
MaxSolve == 2      \* longest batch handed to the equilibrium solver
max_iterations == 3  \* iteration cap of the equilibrium solver

\* The codes of parXtype and parYtype: TA, TC, pH, pCO2, fCO2, CARB, HCO3,
\* CO2(aq).
TypeCodes == 1..8
\* Batches of (parXtype, parYtype) pairs: every pair of codes in the first
\* two places, and these pairs in the places after them.
MixPairs == {<<1, 2>>, <<4, 3>>, <<7, 8>>}
TypeBatches ==
    UNION {{b \in [1..n -> TypeCodes \X TypeCodes] :
               \A i \in 1..n : i > 2 => b[i] \in MixPairs} :
           n \in 1..MaxTypeBatch}

\* Option codes tried: the four legal ones and one that is in no table.
OptionCodes == 1..5
\* Separated option values tried: the two legal ones and one illegal.
PairCodes == 1..3
\* Positive values tried for TSO4, KSO4, TF, KF and fH.
Positives == {1, 3}
\* pH values tried.
PHValues == {7, 8}
\* pH scale tags tried: 1..4 are Total, Seawater, Free, NBS; 5 is no scale.
ScaleTags == 1..5

SeqsUpTo(S, n) == UNION {[1..k -> S] : k \in 0..n}

\* Numbers and texts tried as array elements, and the numbers of arrays
\* handed to _flattenfirst and to _flattenafter / _flattentext.
Elements == {1, 2}
Texts == {"a", "b"}
FirstCounts == 1..3
AfterCounts == 1..2

(***************************************************************************)
(* Exact arithmetic.                                                       *)
(***************************************************************************)
Abs(x) == IF x < 0 THEN -x ELSE x

RECURSIVE Gcd(_, _)
Gcd(a, b) == IF b = 0 THEN a ELSE Gcd(b, a % b)

\* The fraction n/d (d # 0) in lowest terms with a positive denominator.
Rat(n, d) ==
    LET g == Gcd(Abs(n), Abs(d))
        s == IF d < 0 THEN -1 ELSE 1
    IN  <<(s * n) \div g, (s * d) \div g>>

RInt(k) == <<k, 1>>
RAdd(a, b) == Rat(a[1] * b[2] + b[1] * a[2], a[2] * b[2])
RMul(a, b) == Rat(a[1] * b[1], a[2] * b[2])
RDiv(a, b) == Rat(a[1] * b[2], a[2] * b[1])

\* Not-a-number, and a defined pH-like value r + log10(m).
NaN == [nan |-> TRUE, r |-> 0, m |-> <<1, 1>>]

\* Normal form: m carries no factor 5, so m = 10^k only for k = 0.
RECURSIVE LogNorm(_, _)
LogNorm(r, m) ==
    IF m[1] % 5 = 0 THEN LogNorm(r + 1, Rat(m[1], 10 * m[2]))
    ELSE IF m[2] % 5 = 0 THEN LogNorm(r - 1, Rat(10 * m[1], m[2]))
    ELSE [nan |-> FALSE, r |-> r, m |-> m]

\* A plain number k, and np.log10 of a positive fraction.
Num(k) == [nan |-> FALSE, r |-> k, m |-> <<1, 1>>]
Log10(q) == LogNorm(0, q)

\* x + y and x - y; not-a-number propagates.
PAdd(x, y) ==
    IF x.nan \/ y.nan THEN NaN ELSE LogNorm(x.r + y.r, RMul(x.m, y.m))
PSub(x, y) ==
    IF x.nan \/ y.nan THEN NaN ELSE LogNorm(x.r - y.r, RDiv(x.m, y.m))

(***************************************************************************)
(* convert.py: pH scale conversion factors.                                *)
(* totals and equilibria are records of positive fractions.                *)
(***************************************************************************)
free2tot(totals, equilibria) ==
    RAdd(RInt(1), RDiv(totals.TSO4, equilibria.KSO4))

free2sws(totals, equilibria) ==
    RAdd(RAdd(RInt(1), RDiv(totals.TSO4, equilibria.KSO4)),
         RDiv(totals.TF, equilibria.KF))

sws2free(totals, equilibria) == RDiv(RInt(1), free2sws(totals, equilibria))

\* sws2tot as the sum FREEtoTOT + TF/KF.
sws2tot_sum(totals, equilibria) ==
    RAdd(free2tot(totals, equilibria), RDiv(totals.TF, equilibria.KF))

sws2tot(totals, equilibria) ==
    RMul(sws2free(totals, equilibria), free2tot(totals, equilibria))

\* np.where(c, a, b) on one element.
where(c, a, b) == IF c THEN a ELSE b

\* pHfactor with the Seawater and Free factors exchanged.
pHfactor_exchanged(pHScale, FREEtoTOT, SWStoTOT, fH) ==
    IF pHScale = 1 THEN Num(0)
    ELSE IF pHScale = 2 THEN Log10(FREEtoTOT)
    ELSE IF pHScale = 3 THEN Log10(SWStoTOT)
    ELSE IF pHScale = 4 THEN Log10(RDiv(SWStoTOT, fH))
    ELSE NaN

\* pHfactor whose NBS factor leaves out fH.
pHfactor_nofH(pHScale, FREEtoTOT, SWStoTOT, fH) ==
    IF pHScale = 1 THEN Num(0)
    ELSE IF pHScale = 2 THEN Log10(SWStoTOT)
    ELSE IF pHScale = 3 THEN Log10(FREEtoTOT)
    ELSE IF pHScale = 4 THEN Log10(SWStoTOT)
    ELSE NaN

\* pHfactor preallocated with zeros instead of not-a-number.
pHfactor_zeros(pHScale, FREEtoTOT, SWStoTOT, fH) ==
    LET f0 == Num(0)
        f1 == where(pHScale = 1, Num(0), f0)
        f2 == where(pHScale = 2, Log10(SWStoTOT), f1)
        f3 == where(pHScale = 3, Log10(FREEtoTOT), f2)
        f4 == where(pHScale = 4, Log10(RDiv(SWStoTOT, fH)), f3)
    IN  f4

\* The factor pH2allscales subtracts for one element of the batch: the chain
\* of np.where calls over a factor preallocated as not-a-number.
pHfactor(pHScale, FREEtoTOT, SWStoTOT, fH) ==
    LET f0 == NaN
        f1 == where(pHScale = 1, Num(0), f0)
        f2 == where(pHScale = 2, Log10(SWStoTOT), f1)
        f3 == where(pHScale = 3, Log10(FREEtoTOT), f2)
        f4 == where(pHScale = 4, Log10(RDiv(SWStoTOT, fH)), f3)
    IN  f4

\* pH2allscales on a batch: pH (values) and pHScale (tags) are sequences of
\* one length.
\* Returns the tuple (pHtot, pHsws, pHfree, pHNBS) of sequences, together
\* with the locals FREEtoTOT, SWStoTOT and factor.
pH2allscales(pH, pHScale, totals, equilibria) ==
    LET FREEtoTOT == free2tot(totals, equilibria)
        SWStoTOT == sws2tot(totals, equilibria)
        n == Len(pH)
        factor == [i \in 1..n |->
                      pHfactor(pHScale[i], FREEtoTOT, SWStoTOT, equilibria.fH)]
        pHtot == [i \in 1..n |-> PSub(pH[i], factor[i])]
        pHNBS == [i \in 1..n |->
                     PAdd(pHtot[i], Log10(RDiv(SWStoTOT, equilibria.fH)))]
        pHfree == [i \in 1..n |-> PAdd(pHtot[i], Log10(FREEtoTOT))]
        pHsws == [i \in 1..n |-> PAdd(pHtot[i], Log10(SWStoTOT))]
    IN  [FREEtoTOT |-> FREEtoTOT, SWStoTOT |-> SWStoTOT, factor |-> factor,
         result |-> <<pHtot, pHsws, pHfree, pHNBS>>]

(***************************************************************************)
(* convert.py: the constant-set selector and the flattening of inputs.     *)
(* An array is the sequence of its elements in ravel order; a scalar is a  *)
(* sequence of length 1 (np.size of it is 1, and options_old2new wraps it  *)
(* into an array of one element).                                          *)
(***************************************************************************)
Returned(v) == [raised |-> "none", value |-> v]
Raised(e) == [raised |-> e, value |-> <<>>]

Min(a, b) == IF a < b THEN a ELSE b

RECURSIVE MaxOf(_)
MaxOf(S) ==
    LET x == CHOOSE y \in S : TRUE
    IN  IF S = {x} THEN x
        ELSE LET m == MaxOf(S \ {x}) IN IF x > m THEN x ELSE m

only2KSO4 == (1 :> 1) @@ (2 :> 2) @@ (3 :> 1) @@ (4 :> 2)

only2BORON == (1 :> 1) @@ (2 :> 1) @@ (3 :> 2) @@ (4 :> 2)

options_old2new(KSO4CONSTANTS) ==
    IF \E i \in DOMAIN KSO4CONSTANTS :
          KSO4CONSTANTS[i] \notin DOMAIN only2KSO4
    THEN Raised("KeyError")
    ELSE IF \E i \in DOMAIN KSO4CONSTANTS :
               KSO4CONSTANTS[i] \notin DOMAIN only2BORON
    THEN Raised("KeyError")
    ELSE Returned(<<[i \in DOMAIN KSO4CONSTANTS |-> only2KSO4[KSO4CONSTANTS[i]]],
                    [i \in DOMAIN KSO4CONSTANTS |-> only2BORON[KSO4CONSTANTS[i]]]>>)

\* _flattenfirst without its assertion.
flattenfirst_unchecked(arglist) ==
    LET arglengths == [k \in DOMAIN arglist |-> Len(arglist[k])]
        npts == MaxOf({arglengths[k] : k \in DOMAIN arglist})
    IN  Returned(<<[k \in DOMAIN arglist |->
                       IF Len(arglist[k]) = 1
                       THEN [i \in 1..npts |-> arglist[k][1]]
                       ELSE arglist[k]],
                   npts>>)

\* _flattenfirst(args, dtype): args is a sequence of arrays, an array is the
\* sequence of its elements in ravel order (a scalar is an array of size 1),
\* and the elements are integers, which astype(int) leaves as they are.  The
\* value is the pair (list of vectors, npts).
flattenfirst(arglist) ==
    LET arglengths == [k \in DOMAIN arglist |-> Len(arglist[k])]
        nonunit == {arglengths[k] : k \in DOMAIN arglist} \ {1}
        npts == MaxOf({arglengths[k] : k \in DOMAIN arglist})
    IN  IF ~(Cardinality(nonunit) <= 1)
        THEN Raised("AssertionError")
        ELSE Returned(<<[k \in DOMAIN arglist |->
                            IF Len(arglist[k]) = 1
                            THEN [i \in 1..npts |-> arglist[k][1]]
                            ELSE arglist[k]],
                        npts>>)

\* _flattenafter(args, npts, dtype), lines 140-152: the list of vectors.
flattenafter(arglist, npts) ==
    LET arglengths == [k \in DOMAIN arglist |-> Len(arglist[k])]
    IN  IF ~(\A k \in DOMAIN arglist : arglengths[k] \in {1, npts})
        THEN Raised("AssertionError")
        ELSE Returned([k \in DOMAIN arglist |->
                          IF Len(arglist[k]) = 1
                          THEN [i \in 1..npts |-> arglist[k][1]]
                          ELSE arglist[k]])

\* _flattentext(args, npts), lines 155-162: as _flattenafter, without a
\* conversion of the elements.
flattentext(arglist, npts) ==
    LET arglengths == [k \in DOMAIN arglist |-> Len(arglist[k])]
    IN  IF ~(\A k \in DOMAIN arglist : arglengths[k] \in {1, npts})
        THEN Raised("AssertionError")
        ELSE Returned([k \in DOMAIN arglist |->
                          IF Len(arglist[k]) = 1
                          THEN [i \in 1..npts |-> arglist[k][1]]
                          ELSE arglist[k]])

\* pair2one with the codes of (2, 1) and (1, 2) exchanged.
pair2one_exchanged ==
    (<<1, 1>> :> 1) @@ (<<2, 1>> :> 3) @@ (<<1, 2>> :> 2) @@ (<<2, 2>> :> 4)

pair2one ==
    (<<1, 1>> :> 1) @@ (<<2, 1>> :> 2) @@ (<<1, 2>> :> 3) @@ (<<2, 2>> :> 4)

\* zip stops at the shorter of its two arguments.
zip(a, b) == [i \in 1..Min(Len(a), Len(b)) |-> <<a[i], b[i]>>]

options_new2old(KSO4CONSTANT, BORON) ==
    LET flat == flattenfirst(<<KSO4CONSTANT, BORON>>)
    IN  IF flat.raised # "none" THEN flat
        ELSE LET pairs == zip(flat.value[1][1], flat.value[1][2])
             IN  IF \E i \in DOMAIN pairs : pairs[i] \notin DOMAIN pair2one
                 THEN Raised("KeyError")
                 ELSE Returned([i \in DOMAIN pairs |-> pair2one[pairs[i]]])

(***************************************************************************)
(* uncertainty.py: dcore_dparX__parY.                                      *)
(*                                                                         *)
(* A derivative is not-a-number, 0.0, or a product of powers of atoms: a   *)
(* function from atoms to non-zero exponents (1.0 is the empty product).   *)
(* An atom is K0, FugFac or one call of egrad: the derivative of the       *)
(* closed-form relation giving `of` from the two core variables `given`,   *)
(* taken with respect to `wrt` (get.TAfromTCpH differentiated in PH is     *)
(* of TA, given {TC, PH}, wrt PH).  Atoms stand for non-zero reals.        *)
(***************************************************************************)
Atom(of, given, wrt) == [of |-> of, given |-> given, wrt |-> wrt]
KsAtom(name) == Atom(name, {}, "")

VNaN == [k |-> "nan", e |-> <<>>]
VZero == [k |-> "zero", e |-> <<>>]
VOne == [k |-> "val", e |-> <<>>]
VUnbound == [k |-> "unbound", e |-> <<>>]
VAtom(a) == [k |-> "val", e |-> (a :> 1)]

MExp(m, a) == IF a \in DOMAIN m THEN m[a] ELSE 0
MMul(m1, m2) ==
    LET s(a) == MExp(m1, a) + MExp(m2, a)
    IN  [a \in {b \in DOMAIN m1 \cup DOMAIN m2 : s(b) # 0} |-> s(a)]
MInv(m) == [a \in DOMAIN m |-> 0 - m[a]]

\* x * y and x / y (y is never 0.0 here: every divisor is an atom or 1.0).
VMul(x, y) ==
    IF x.k = "unbound" \/ y.k = "unbound" THEN VUnbound
    ELSE IF x.k = "nan" \/ y.k = "nan" THEN VNaN
    ELSE IF x.k = "zero" \/ y.k = "zero" THEN VZero
    ELSE [k |-> "val", e |-> MMul(x.e, y.e)]
VDiv(x, y) ==
    IF x.k = "unbound" \/ y.k = "unbound" THEN VUnbound
    ELSE IF x.k = "nan" \/ y.k = "nan" \/ y.k = "zero" THEN VNaN
    ELSE IF x.k = "zero" THEN VZero
    ELSE [k |-> "val", e |-> MMul(x.e, MInv(y.e))]

\* The right-hand sides that occur in the function.
NoAtom == Atom("", {}, "")
Egrad(of, given, wrt) ==
    [op |-> "egrad", atom |-> Atom(of, given, wrt), num |-> "", den |-> ""]
Quot(num, den) == [op |-> "quot", atom |-> NoAtom, num |-> num, den |-> den]
Inv(den) == [op |-> "inv", atom |-> NoAtom, num |-> "", den |-> den]
Ref(name) == [op |-> "ref", atom |-> NoAtom, num |-> name, den |-> ""]
Zero == [op |-> "zero", atom |-> NoAtom, num |-> "", den |-> ""]
B(name, expr) == [name |-> name, expr |-> expr]
S(key, expr) == [key |-> key, expr |-> expr]
R(key, op, by) == [key |-> key, op |-> op, by |-> by]

\* uncertainty.py lines 111-135: the derivatives used by several Ucases,
\* each block bound when its guard holds for some element of the batch.
SharedDerivs ==
    <<
      [ucases |-> {12, 32, 42, 52, 62, 72, 82},
       binds |-> <<
          B("dTA_dPH__TC", Egrad("TA", {"TC", "PH"}, "PH")),
          B("dFC_dPH__TC", Egrad("FC", {"TC", "PH"}, "PH")),
          B("dCARB_dPH__TC", Egrad("CARB", {"TC", "PH"}, "PH")),
          B("dHCO3_dPH__TC", Egrad("HCO3", {"TC", "PH"}, "PH"))
       >>],
      [ucases |-> {21, 31, 41, 51, 61, 71, 81},
       binds |-> <<
          B("dTC_dPH__TA", Egrad("TC", {"TA", "PH"}, "PH")),
          B("dFC_dPH__TA", Egrad("FC", {"TA", "PH"}, "PH")),
          B("dCARB_dPH__TA", Egrad("CARB", {"TA", "PH"}, "PH")),
          B("dHCO3_dPH__TA", Egrad("HCO3", {"TA", "PH"}, "PH"))
       >>],
      [ucases |-> {16, 26, 36},
       binds |-> <<
          B("dTC_dPH__CARB", Egrad("TC", {"PH", "CARB"}, "PH")),
          B("dTA_dPH__CARB", Egrad("TA", {"PH", "CARB"}, "PH")),
          B("dFC_dPH__CARB", Egrad("FC", {"PH", "CARB"}, "PH")),
          B("dHCO3_dPH__CARB", Egrad("HCO3", {"PH", "CARB"}, "PH"))
       >>],
      [ucases |-> {17, 27, 37},
       binds |-> <<
          B("dTC_dPH__HCO3", Egrad("TC", {"PH", "HCO3"}, "PH")),
          B("dTA_dPH__HCO3", Egrad("TA", {"PH", "HCO3"}, "PH")),
          B("dFC_dPH__HCO3", Egrad("FC", {"PH", "HCO3"}, "PH")),
          B("dCARB_dPH__HCO3", Egrad("CARB", {"PH", "HCO3"}, "PH"))
       >>],
      [ucases |-> {14, 15, 18, 24, 25, 28, 34, 35, 38},
       binds |-> <<
          B("dTA_dPH__FC", Egrad("TA", {"PH", "FC"}, "PH")),
          B("dTC_dPH__FC", Egrad("TC", {"PH", "FC"}, "PH")),
          B("dCARB_dPH__FC", Egrad("CARB", {"PH", "FC"}, "PH")),
          B("dHCO3_dPH__FC", Egrad("HCO3", {"PH", "FC"}, "PH"))
       >>]
    >>

\* uncertainty.py lines 137-281: the derivatives of a single (parXtype,
\* parYtype) case, each block bound when its guard holds for some element.
CaseDerivs ==
    <<
      [X |-> {1}, Y |-> {2},
       binds |-> <<
          B("dPH_dTA__TC", Inv("dTA_dPH__TC")),
          B("dFC_dTA__TC", Quot("dFC_dPH__TC", "dTA_dPH__TC")),
          B("dCARB_dTA__TC", Quot("dCARB_dPH__TC", "dTA_dPH__TC")),
          B("dHCO3_dTA__TC", Quot("dHCO3_dPH__TC", "dTA_dPH__TC"))
       >>],
      [X |-> {1}, Y |-> {3},
       binds |-> <<
          B("dTC_dTA__PH", Egrad("TC", {"TA", "PH"}, "TA")),
          B("dFC_dTA__PH", Egrad("FC", {"TA", "PH"}, "TA")),
          B("dCARB_dTA__PH", Egrad("CARB", {"TA", "PH"}, "TA")),
          B("dHCO3_dTA__PH", Egrad("HCO3", {"TA", "PH"}, "TA"))
       >>],
      [X |-> {1}, Y |-> {4, 5, 8},
       binds |-> <<
          B("dTC_dTA__FC", Quot("dTC_dPH__FC", "dTA_dPH__FC")),
          B("dPH_dTA__FC", Inv("dTA_dPH__FC")),
          B("dCARB_dTA__FC", Quot("dCARB_dPH__FC", "dTA_dPH__FC")),
          B("dHCO3_dTA__FC", Quot("dHCO3_dPH__FC", "dTA_dPH__FC"))
       >>],
      [X |-> {1}, Y |-> {6},
       binds |-> <<
          B("dTC_dTA__CARB", Quot("dTC_dPH__CARB", "dTA_dPH__CARB")),
          B("dPH_dTA__CARB", Inv("dTA_dPH__CARB")),
          B("dFC_dTA__CARB", Quot("dFC_dPH__CARB", "dTA_dPH__CARB")),
          B("dHCO3_dTA__CARB", Quot("dHCO3_dPH__CARB", "dTA_dPH__CARB"))
       >>],
      [X |-> {1}, Y |-> {7},
       binds |-> <<
          B("dTC_dTA__HCO3", Quot("dTC_dPH__HCO3", "dTA_dPH__HCO3")),
          B("dPH_dTA__HCO3", Inv("dTA_dPH__HCO3")),
          B("dFC_dTA__HCO3", Quot("dFC_dPH__HCO3", "dTA_dPH__HCO3")),
          B("dCARB_dTA__HCO3", Quot("dCARB_dPH__HCO3", "dTA_dPH__HCO3"))
       >>],
      [X |-> {2}, Y |-> {1},
       binds |-> <<
          B("dPH_dTC__TA", Inv("dTC_dPH__TA")),
          B("dFC_dTC__TA", Quot("dFC_dPH__TA", "dTC_dPH__TA")),
          B("dCARB_dTC__TA", Quot("dCARB_dPH__TA", "dTC_dPH__TA")),
          B("dHCO3_dTC__TA", Quot("dHCO3_dPH__TA", "dTC_dPH__TA"))
       >>],
      [X |-> {2}, Y |-> {3},
       binds |-> <<
          B("dTA_dTC__PH", Egrad("TA", {"TC", "PH"}, "TC")),
          B("dFC_dTC__PH", Egrad("FC", {"TC", "PH"}, "TC")),
          B("dCARB_dTC__PH", Egrad("CARB", {"TC", "PH"}, "TC")),
          B("dHCO3_dTC__PH", Egrad("HCO3", {"TC", "PH"}, "TC"))
       >>],
      [X |-> {2}, Y |-> {4, 5, 8},
       binds |-> <<
          B("dTA_dTC__FC", Quot("dTA_dPH__FC", "dTC_dPH__FC")),
          B("dPH_dTC__FC", Inv("dTC_dPH__FC")),
          B("dCARB_dTC__FC", Quot("dCARB_dPH__FC", "dTC_dPH__FC")),
          B("dHCO3_dTC__FC", Quot("dHCO3_dPH__FC", "dTC_dPH__FC"))
       >>],
      [X |-> {2}, Y |-> {6},
       binds |-> <<
          B("dTA_dTC__CARB", Quot("dTA_dPH__CARB", "dTC_dPH__CARB")),
          B("dPH_dTC__CARB", Inv("dTC_dPH__CARB")),
          B("dFC_dTC__CARB", Quot("dFC_dPH__CARB", "dTC_dPH__CARB")),
          B("dHCO3_dTC__CARB", Quot("dHCO3_dPH__CARB", "dTC_dPH__CARB"))
       >>],
      [X |-> {2}, Y |-> {7},
       binds |-> <<
          B("dTA_dTC__HCO3", Quot("dTA_dPH__HCO3", "dTC_dPH__HCO3")),
          B("dPH_dTC__HCO3", Inv("dTC_dPH__HCO3")),
          B("dFC_dTC__HCO3", Quot("dFC_dPH__HCO3", "dTC_dPH__HCO3")),
          B("dCARB_dTC__HCO3", Quot("dCARB_dPH__HCO3", "dTC_dPH__HCO3"))
       >>],
      [X |-> {4, 5, 8}, Y |-> {1},
       binds |-> <<
          B("dTC_dFC__TA", Quot("dTC_dPH__TA", "dFC_dPH__TA")),
          B("dPH_dFC__TA", Inv("dFC_dPH__TA")),
          B("dCARB_dFC__TA", Quot("dCARB_dPH__TA", "dFC_dPH__TA")),
          B("dHCO3_dFC__TA", Quot("dHCO3_dPH__TA", "dFC_dPH__TA"))
       >>],
      [X |-> {4, 5, 8}, Y |-> {2},
       binds |-> <<
          B("dTA_dFC__TC", Quot("dTA_dPH__TC", "dFC_dPH__TC")),
          B("dPH_dFC__TC", Inv("dFC_dPH__TC")),
          B("dCARB_dFC__TC", Quot("dCARB_dPH__TC", "dFC_dPH__TC")),
          B("dHCO3_dFC__TC", Quot("dHCO3_dPH__TC", "dFC_dPH__TC"))
       >>],
      [X |-> {4, 5, 8}, Y |-> {3},
       binds |-> <<
          B("dTA_dFC__PH", Egrad("TA", {"PH", "FC"}, "FC")),
          B("dTC_dFC__PH", Egrad("TC", {"PH", "FC"}, "FC")),
          B("dCARB_dFC__PH", Egrad("CARB", {"PH", "FC"}, "FC")),
          B("dHCO3_dFC__PH", Egrad("HCO3", {"PH", "FC"}, "FC"))
       >>],
      [X |-> {4, 5, 8}, Y |-> {6},
       binds |-> <<
          B("dTA_dFC__CARB", Egrad("TA", {"FC", "CARB"}, "FC")),
          B("dTC_dFC__CARB", Egrad("TC", {"FC", "CARB"}, "FC")),
          B("dPH_dFC__CARB", Egrad("PH", {"FC", "CARB"}, "FC")),
          B("dHCO3_dFC__CARB", Egrad("HCO3", {"FC", "CARB"}, "FC"))
       >>],
      [X |-> {4, 5, 8}, Y |-> {7},
       binds |-> <<
          B("dTA_dFC__HCO3", Egrad("TA", {"FC", "HCO3"}, "FC")),
          B("dTC_dFC__HCO3", Egrad("TC", {"FC", "HCO3"}, "FC")),
          B("dPH_dFC__HCO3", Egrad("PH", {"FC", "HCO3"}, "FC")),
          B("dCARB_dFC__HCO3", Egrad("CARB", {"FC", "HCO3"}, "FC"))
       >>],
      [X |-> {6}, Y |-> {1},
       binds |-> <<
          B("dTC_dCARB__TA", Quot("dTC_dPH__TA", "dCARB_dPH__TA")),
          B("dPH_dCARB__TA", Inv("dCARB_dPH__TA")),
          B("dFC_dCARB__TA", Quot("dFC_dPH__TA", "dCARB_dPH__TA")),
          B("dHCO3_dCARB__TA", Quot("dHCO3_dPH__TA", "dCARB_dPH__TA"))
       >>],
      [X |-> {6}, Y |-> {2},
       binds |-> <<
          B("dTA_dCARB__TC", Quot("dTA_dPH__TC", "dCARB_dPH__TC")),
          B("dPH_dCARB__TC", Inv("dCARB_dPH__TC")),
          B("dFC_dCARB__TC", Quot("dFC_dPH__TC", "dCARB_dPH__TC")),
          B("dHCO3_dCARB__TC", Quot("dHCO3_dPH__TC", "dCARB_dPH__TC"))
       >>],
      [X |-> {6}, Y |-> {3},
       binds |-> <<
          B("dTA_dCARB__PH", Egrad("TA", {"PH", "CARB"}, "CARB")),
          B("dTC_dCARB__PH", Egrad("TC", {"PH", "CARB"}, "CARB")),
          B("dFC_dCARB__PH", Egrad("FC", {"PH", "CARB"}, "CARB")),
          B("dHCO3_dCARB__PH", Egrad("HCO3", {"PH", "CARB"}, "CARB"))
       >>],
      [X |-> {6}, Y |-> {4, 5, 8},
       binds |-> <<
          B("dTA_dCARB__FC", Egrad("TA", {"FC", "CARB"}, "CARB")),
          B("dTC_dCARB__FC", Egrad("TC", {"FC", "CARB"}, "CARB")),
          B("dPH_dCARB__FC", Egrad("PH", {"FC", "CARB"}, "CARB")),
          B("dHCO3_dCARB__FC", Egrad("HCO3", {"FC", "CARB"}, "CARB"))
       >>],
      [X |-> {6}, Y |-> {7},
       binds |-> <<
          B("dTA_dCARB__HCO3", Egrad("TA", {"CARB", "HCO3"}, "CARB")),
          B("dTC_dCARB__HCO3", Egrad("TC", {"CARB", "HCO3"}, "CARB")),
          B("dPH_dCARB__HCO3", Egrad("PH", {"CARB", "HCO3"}, "CARB")),
          B("dFC_dCARB__HCO3", Egrad("FC", {"CARB", "HCO3"}, "CARB"))
       >>],
      [X |-> {7}, Y |-> {1},
       binds |-> <<
          B("dTC_dHCO3__TA", Quot("dTC_dPH__TA", "dHCO3_dPH__TA")),
          B("dPH_dHCO3__TA", Inv("dHCO3_dPH__TA")),
          B("dFC_dHCO3__TA", Quot("dFC_dPH__TA", "dHCO3_dPH__TA")),
          B("dCARB_dHCO3__TA", Quot("dCARB_dPH__TA", "dHCO3_dPH__TA"))
       >>],
      [X |-> {7}, Y |-> {2},
       binds |-> <<
          B("dTA_dHCO3__TC", Quot("dTA_dPH__TC", "dHCO3_dPH__TC")),
          B("dPH_dHCO3__TC", Inv("dHCO3_dPH__TC")),
          B("dFC_dHCO3__TC", Quot("dFC_dPH__TC", "dHCO3_dPH__TC")),
          B("dCARB_dHCO3__TC", Quot("dCARB_dPH__TC", "dHCO3_dPH__TC"))
       >>],
      [X |-> {7}, Y |-> {3},
       binds |-> <<
          B("dTC_dHCO3__PH", Egrad("TC", {"PH", "HCO3"}, "HCO3")),
          B("dTA_dHCO3__PH", Egrad("TA", {"PH", "HCO3"}, "HCO3")),
          B("dFC_dHCO3__PH", Egrad("FC", {"PH", "HCO3"}, "HCO3")),
          B("dCARB_dHCO3__PH", Egrad("CARB", {"PH", "HCO3"}, "HCO3"))
       >>],
      [X |-> {7}, Y |-> {4, 5, 8},
       binds |-> <<
          B("dTA_dHCO3__FC", Egrad("TA", {"FC", "HCO3"}, "HCO3")),
          B("dTC_dHCO3__FC", Egrad("TC", {"FC", "HCO3"}, "HCO3")),
          B("dPH_dHCO3__FC", Egrad("PH", {"FC", "HCO3"}, "HCO3")),
          B("dCARB_dHCO3__FC", Egrad("CARB", {"FC", "HCO3"}, "HCO3"))
       >>],
      [X |-> {7}, Y |-> {6},
       binds |-> <<
          B("dTA_dHCO3__CARB", Egrad("TA", {"CARB", "HCO3"}, "HCO3")),
          B("dTC_dHCO3__CARB", Egrad("TC", {"CARB", "HCO3"}, "HCO3")),
          B("dPH_dHCO3__CARB", Egrad("PH", {"CARB", "HCO3"}, "HCO3")),
          B("dFC_dHCO3__CARB", Egrad("FC", {"CARB", "HCO3"}, "HCO3"))
       >>]
    >>

\* uncertainty.py lines 290-517: the assignment of the derivatives.  Each
\* outer block sets the derivative of parX with respect to itself to 1.0
\* where X holds; each inner block assigns where X & Y holds.
Assignments ==
    <<
      [X |-> {1}, self |-> "TA",
       inner |-> <<
          [Y |-> {2},
           set |-> <<S("TC", Zero),
                     S("PH", Ref("dPH_dTA__TC")),
                     S("FC", Ref("dFC_dTA__TC")),
                     S("CARB", Ref("dCARB_dTA__TC")),
                     S("HCO3", Ref("dHCO3_dTA__TC"))>>],
          [Y |-> {3},
           set |-> <<S("TC", Ref("dTC_dTA__PH")),
                     S("PH", Zero),
                     S("FC", Ref("dFC_dTA__PH")),
                     S("CARB", Ref("dCARB_dTA__PH")),
                     S("HCO3", Ref("dHCO3_dTA__PH"))>>],
          [Y |-> {4, 5, 8},
           set |-> <<S("TC", Ref("dTC_dTA__FC")),
                     S("PH", Ref("dPH_dTA__FC")),
                     S("FC", Zero),
                     S("CARB", Ref("dCARB_dTA__FC")),
                     S("HCO3", Ref("dHCO3_dTA__FC"))>>],
          [Y |-> {6},
           set |-> <<S("TC", Ref("dTC_dTA__CARB")),
                     S("PH", Ref("dPH_dTA__CARB")),
                     S("FC", Ref("dFC_dTA__CARB")),
                     S("CARB", Zero),
                     S("HCO3", Ref("dHCO3_dTA__CARB"))>>],
          [Y |-> {7},
           set |-> <<S("TC", Ref("dTC_dTA__HCO3")),
                     S("PH", Ref("dPH_dTA__HCO3")),
                     S("FC", Ref("dFC_dTA__HCO3")),
                     S("CARB", Ref("dCARB_dTA__HCO3")),
                     S("HCO3", Zero)>>]
       >>],
      [X |-> {2}, self |-> "TC",
       inner |-> <<
          [Y |-> {1},
           set |-> <<S("TA", Zero),
                     S("PH", Ref("dPH_dTC__TA")),
                     S("FC", Ref("dFC_dTC__TA")),
                     S("CARB", Ref("dCARB_dTC__TA")),
                     S("HCO3", Ref("dHCO3_dTC__TA"))>>],
          [Y |-> {3},
           set |-> <<S("TA", Ref("dTA_dTC__PH")),
                     S("PH", Zero),
                     S("FC", Ref("dFC_dTC__PH")),
                     S("CARB", Ref("dCARB_dTC__PH")),
                     S("HCO3", Ref("dHCO3_dTC__PH"))>>],
          [Y |-> {4, 5, 8},
           set |-> <<S("TA", Ref("dTA_dTC__FC")),
                     S("PH", Ref("dPH_dTC__FC")),
                     S("FC", Zero),
                     S("CARB", Ref("dCARB_dTC__FC")),
                     S("HCO3", Ref("dHCO3_dTC__FC"))>>],
          [Y |-> {6},
           set |-> <<S("TA", Ref("dTA_dTC__CARB")),
                     S("PH", Ref("dPH_dTC__CARB")),
                     S("FC", Ref("dFC_dTC__CARB")),
                     S("CARB", Zero),
                     S("HCO3", Ref("dHCO3_dTC__CARB"))>>],
          [Y |-> {7},
           set |-> <<S("TA", Ref("dTA_dTC__HCO3")),
                     S("PH", Ref("dPH_dTC__HCO3")),
                     S("FC", Ref("dFC_dTC__HCO3")),
                     S("CARB", Ref("dCARB_dTC__HCO3")),
                     S("HCO3", Zero)>>]
       >>],
      [X |-> {3}, self |-> "PH",
       inner |-> <<
          [Y |-> {1},
           set |-> <<S("TA", Zero),
                     S("TC", Ref("dTC_dPH__TA")),
                     S("FC", Ref("dFC_dPH__TA")),
                     S("CARB", Ref("dCARB_dPH__TA")),
                     S("HCO3", Ref("dHCO3_dPH__TA"))>>],
          [Y |-> {2},
           set |-> <<S("TA", Ref("dTA_dPH__TC")),
                     S("TC", Zero),
                     S("FC", Ref("dFC_dPH__TC")),
                     S("CARB", Ref("dCARB_dPH__TC")),
                     S("HCO3", Ref("dHCO3_dPH__TC"))>>],
          [Y |-> {4, 5, 8},
           set |-> <<S("TA", Ref("dTA_dPH__FC")),
                     S("TC", Ref("dTC_dPH__FC")),
                     S("FC", Zero),
                     S("CARB", Ref("dCARB_dPH__FC")),
                     S("HCO3", Ref("dHCO3_dPH__FC"))>>],
          [Y |-> {6},
           set |-> <<S("TA", Ref("dTA_dPH__CARB")),
                     S("TC", Ref("dTC_dPH__CARB")),
                     S("FC", Ref("dFC_dPH__CARB")),
                     S("CARB", Zero),
                     S("HCO3", Ref("dHCO3_dPH__CARB"))>>],
          [Y |-> {7},
           set |-> <<S("TA", Ref("dTA_dPH__HCO3")),
                     S("TC", Ref("dTC_dPH__HCO3")),
                     S("FC", Ref("dFC_dPH__HCO3")),
                     S("CARB", Ref("dCARB_dPH__HCO3")),
                     S("HCO3", Zero)>>]
       >>],
      [X |-> {4, 5, 8}, self |-> "FC",
       inner |-> <<
          [Y |-> {1},
           set |-> <<S("TA", Zero),
                     S("TC", Ref("dTC_dFC__TA")),
                     S("PH", Ref("dPH_dFC__TA")),
                     S("CARB", Ref("dCARB_dFC__TA")),
                     S("HCO3", Ref("dHCO3_dFC__TA"))>>],
          [Y |-> {2},
           set |-> <<S("TA", Ref("dTA_dFC__TC")),
                     S("TC", Zero),
                     S("PH", Ref("dPH_dFC__TC")),
                     S("CARB", Ref("dCARB_dFC__TC")),
                     S("HCO3", Ref("dHCO3_dFC__TC"))>>],
          [Y |-> {3},
           set |-> <<S("TA", Ref("dTA_dFC__PH")),
                     S("TC", Ref("dTC_dFC__PH")),
                     S("PH", Zero),
                     S("CARB", Ref("dCARB_dFC__PH")),
                     S("HCO3", Ref("dHCO3_dFC__PH"))>>],
          [Y |-> {6},
           set |-> <<S("TA", Ref("dTA_dFC__CARB")),
                     S("TC", Ref("dTC_dFC__CARB")),
                     S("PH", Ref("dPH_dFC__CARB")),
                     S("CARB", Zero),
                     S("HCO3", Ref("dHCO3_dFC__CARB"))>>],
          [Y |-> {7},
           set |-> <<S("TA", Ref("dTA_dFC__HCO3")),
                     S("TC", Ref("dTC_dFC__HCO3")),
                     S("PH", Ref("dPH_dFC__HCO3")),
                     S("CARB", Ref("dCARB_dFC__HCO3")),
                     S("HCO3", Zero)>>]
       >>],
      [X |-> {6}, self |-> "CARB",
       inner |-> <<
          [Y |-> {1},
           set |-> <<S("TA", Zero),
                     S("TC", Ref("dTC_dCARB__TA")),
                     S("PH", Ref("dPH_dCARB__TA")),
                     S("FC", Ref("dFC_dCARB__TA")),
                     S("HCO3", Ref("dHCO3_dCARB__TA"))>>],
          [Y |-> {2},
           set |-> <<S("TA", Ref("dTA_dCARB__TC")),
                     S("TC", Zero),
                     S("PH", Ref("dPH_dCARB__TC")),
                     S("FC", Ref("dFC_dCARB__TC")),
                     S("HCO3", Ref("dHCO3_dCARB__TC"))>>],
          [Y |-> {3},
           set |-> <<S("TA", Ref("dTA_dCARB__PH")),
                     S("TC", Ref("dTC_dCARB__PH")),
                     S("PH", Zero),
                     S("FC", Ref("dFC_dCARB__PH")),
                     S("HCO3", Ref("dHCO3_dCARB__PH"))>>],
          [Y |-> {4, 5, 8},
           set |-> <<S("TA", Ref("dTA_dCARB__FC")),
                     S("TC", Ref("dTC_dCARB__FC")),
                     S("PH", Ref("dPH_dCARB__FC")),
                     S("FC", Zero),
                     S("HCO3", Ref("dHCO3_dCARB__FC"))>>],
          [Y |-> {7},
           set |-> <<S("TA", Ref("dTA_dCARB__HCO3")),
                     S("TC", Ref("dTC_dCARB__HCO3")),
                     S("PH", Ref("dPH_dCARB__HCO3")),
                     S("FC", Ref("dFC_dCARB__HCO3")),
                     S("HCO3", Zero)>>]
       >>],
      [X |-> {7}, self |-> "HCO3",
       inner |-> <<
          [Y |-> {1},
           set |-> <<S("TA", Zero),
                     S("TC", Ref("dTC_dHCO3__TA")),
                     S("PH", Ref("dPH_dHCO3__TA")),
                     S("FC", Ref("dFC_dHCO3__TA")),
                     S("CARB", Ref("dCARB_dHCO3__TA"))>>],
          [Y |-> {2},
           set |-> <<S("TA", Ref("dTA_dHCO3__TC")),
                     S("TC", Zero),
                     S("PH", Ref("dPH_dHCO3__TC")),
                     S("FC", Ref("dFC_dHCO3__TC")),
                     S("CARB", Ref("dCARB_dHCO3__TC"))>>],
          [Y |-> {3},
           set |-> <<S("TA", Ref("dTA_dHCO3__PH")),
                     S("TC", Ref("dTC_dHCO3__PH")),
                     S("PH", Zero),
                     S("FC", Ref("dFC_dHCO3__PH")),
                     S("CARB", Ref("dCARB_dHCO3__PH"))>>],
          [Y |-> {4, 5, 8},
           set |-> <<S("TA", Ref("dTA_dHCO3__FC")),
                     S("TC", Ref("dTC_dHCO3__FC")),
                     S("PH", Ref("dPH_dHCO3__FC")),
                     S("FC", Zero),
                     S("CARB", Ref("dCARB_dHCO3__FC"))>>],
          [Y |-> {6},
           set |-> <<S("TA", Ref("dTA_dHCO3__CARB")),
                     S("TC", Ref("dTC_dHCO3__CARB")),
                     S("PH", Ref("dPH_dHCO3__CARB")),
                     S("FC", Ref("dFC_dHCO3__CARB")),
                     S("CARB", Zero)>>]
       >>]
    >>

\* Rescalings without the statement that rescales the CO2(aq) derivative
\* where parX is pCO2.
Rescalings_noCO2 ==
    <<
      [X |-> 4,
       ops |-> <<R("TA", "mul", "FugFac"),
                 R("TC", "mul", "FugFac"),
                 R("PH", "mul", "FugFac"),
                 R("PC", "mul", "FugFac"),
                 R("FC", "mul", "FugFac"),
                 R("CARB", "mul", "FugFac"),
                 R("HCO3", "mul", "FugFac")>>],
      [X |-> 8,
       ops |-> <<R("TA", "div", "K0"),
                 R("TC", "div", "K0"),
                 R("PH", "div", "K0"),
                 R("PC", "div", "K0"),
                 R("FC", "div", "K0"),
                 R("CARB", "div", "K0"),
                 R("HCO3", "div", "K0"),
                 R("CO2", "div", "K0")>>]
    >>

\* uncertainty.py lines 521-541: the rescaling where parX is pCO2 or CO2(aq).
Rescalings ==
    <<
      [X |-> 4,
       ops |-> <<R("TA", "mul", "FugFac"),
                 R("TC", "mul", "FugFac"),
                 R("PH", "mul", "FugFac"),
                 R("PC", "mul", "FugFac"),
                 R("FC", "mul", "FugFac"),
                 R("CARB", "mul", "FugFac"),
                 R("HCO3", "mul", "FugFac"),
                 R("CO2", "mul", "FugFac")>>],
      [X |-> 8,
       ops |-> <<R("TA", "div", "K0"),
                 R("TC", "div", "K0"),
                 R("PH", "div", "K0"),
                 R("PC", "div", "K0"),
                 R("FC", "div", "K0"),
                 R("CARB", "div", "K0"),
                 R("HCO3", "div", "K0"),
                 R("CO2", "div", "K0")>>]
    >>

\* Eval with an inverted quotient.
Eval_inverted(expr, env) ==
    CASE expr.op = "egrad" -> VAtom(expr.atom)
      [] expr.op = "quot" ->
            VDiv(IF expr.den \in DOMAIN env THEN env[expr.den] ELSE VUnbound,
                 IF expr.num \in DOMAIN env THEN env[expr.num] ELSE VUnbound)
      [] expr.op = "inv" ->
            VDiv(VOne,
                 IF expr.den \in DOMAIN env THEN env[expr.den] ELSE VUnbound)
      [] expr.op = "ref" ->
            IF expr.num \in DOMAIN env THEN env[expr.num] ELSE VUnbound
      [] expr.op = "zero" -> VZero

\* The value of a local variable; reading one that was never bound raises.
Lookup(env, name) == IF name \in DOMAIN env THEN env[name] ELSE VUnbound

Eval(expr, env) ==
    CASE expr.op = "egrad" -> VAtom(expr.atom)
      [] expr.op = "quot" -> VDiv(Lookup(env, expr.num), Lookup(env, expr.den))
      [] expr.op = "inv" -> VDiv(VOne, Lookup(env, expr.den))
      [] expr.op = "ref" -> Lookup(env, expr.num)
      [] expr.op = "zero" -> VZero

\* The statements of one block, in order, on the locals st.env; st.err
\* records a read of a local that was not bound.
RECURSIVE Bind(_, _, _)
Bind(binds, j, st) ==
    IF j > Len(binds) THEN st
    ELSE LET v == Eval(binds[j].expr, st.env)
         IN  IF v.k = "unbound" THEN [st EXCEPT !.err = TRUE]
             ELSE Bind(binds, j + 1,
                       [st EXCEPT !.env = (binds[j].name :> v) @@ st.env])

\* The Ucase guard looking at the first element of the batch only.
AnyUcase_first(parXtype, parYtype, ucases) ==
    10 * parXtype[1] + parYtype[1] \in ucases

\* np_any(isin(Ucase, ucases)) with Ucase = 10 * parXtype + parYtype.
AnyUcase(parXtype, parYtype, ucases) ==
    \E i \in DOMAIN parXtype : 10 * parXtype[i] + parYtype[i] \in ucases

\* np_any((parXtype in X) & (parYtype in Y)).
AnyXY(parXtype, parYtype, X, Y) ==
    \E i \in DOMAIN parXtype : parXtype[i] \in X /\ parYtype[i] \in Y

RECURSIVE RunShared(_, _, _, _)
RunShared(parXtype, parYtype, b, st) ==
    IF b > Len(SharedDerivs) \/ st.err THEN st
    ELSE RunShared(parXtype, parYtype, b + 1,
            IF AnyUcase(parXtype, parYtype, SharedDerivs[b].ucases)
            THEN Bind(SharedDerivs[b].binds, 1, st) ELSE st)

RECURSIVE RunCase(_, _, _, _)
RunCase(parXtype, parYtype, b, st) ==
    IF b > Len(CaseDerivs) \/ st.err THEN st
    ELSE RunCase(parXtype, parYtype, b + 1,
            IF AnyXY(parXtype, parYtype, CaseDerivs[b].X, CaseDerivs[b].Y)
            THEN Bind(CaseDerivs[b].binds, 1, st) ELSE st)

\* Assign that writes 1.0 where 0.0 is to be written.
Assign_nozero(d, key, mask, v) ==
    [d EXCEPT ![key] =
        [i \in DOMAIN @ |->
            IF mask[i] THEN (IF v.k = "zero" THEN VOne ELSE v) ELSE @[i]]]

\* Assign that writes the value at every index once the mask is true
\* somewhere.
Assign_unmasked(d, key, mask, v) ==
    [d EXCEPT ![key] = [i \in DOMAIN @ |-> v]]

\* key = where(mask, value, key), element by element.
Assign(d, key, mask, v) ==
    [d EXCEPT ![key] = [i \in DOMAIN @ |-> where(mask[i], v, @[i])]]

RECURSIVE AssignSet(_, _, _, _)
AssignSet(set, j, XY, st) ==
    IF j > Len(set) THEN st
    ELSE LET v == Eval(set[j].expr, st.env)
         IN  IF v.k = "unbound" THEN [st EXCEPT !.err = TRUE]
             ELSE AssignSet(set, j + 1, XY,
                     [st EXCEPT !.d = Assign(st.d, set[j].key, XY, v)])

\* AssignInner without the first inner block of each outer block.
RECURSIVE AssignInner_skipfirst(_, _, _, _, _)
AssignInner_skipfirst(parYtype, inner, j, X, st) ==
    IF j > Len(inner) \/ st.err THEN st
    ELSE LET XY == [i \in DOMAIN X |-> X[i] /\ parYtype[i] \in inner[j].Y]
         IN  AssignInner_skipfirst(parYtype, inner, j + 1, X,
                IF j > 1 /\ \E i \in DOMAIN XY : XY[i]
                THEN AssignSet(inner[j].set, 1, XY, st) ELSE st)

RECURSIVE AssignInner(_, _, _, _, _)
AssignInner(parYtype, inner, j, X, st) ==
    IF j > Len(inner) \/ st.err THEN st
    ELSE LET XY == [i \in DOMAIN X |-> X[i] /\ parYtype[i] \in inner[j].Y]
         IN  AssignInner(parYtype, inner, j + 1, X,
                IF \E i \in DOMAIN XY : XY[i]
                THEN AssignSet(inner[j].set, 1, XY, st) ELSE st)

RECURSIVE AssignOuter(_, _, _, _)
AssignOuter(parXtype, parYtype, b, st) ==
    IF b > Len(Assignments) \/ st.err THEN st
    ELSE LET X == [i \in DOMAIN parXtype |-> parXtype[i] \in Assignments[b].X]
         IN  AssignOuter(parXtype, parYtype, b + 1,
                IF \E i \in DOMAIN X : X[i]
                THEN AssignInner(parYtype, Assignments[b].inner, 1, X,
                        [st EXCEPT !.d = Assign(st.d, Assignments[b].self,
                                                X, VOne)])
                ELSE st)

\* RescaleOp that leaves the pCO2 derivative as it was.
RescaleOp_skipPC(d, op, X) ==
    IF op.key = "PC" THEN d
    ELSE [d EXCEPT ![op.key] =
            [i \in DOMAIN @ |->
                IF X[i]
                THEN (IF op.op = "mul" THEN VMul(@[i], VAtom(KsAtom(op.by)))
                      ELSE VDiv(@[i], VAtom(KsAtom(op.by))))
                ELSE @[i]]]

\* One rescaling statement: key = where(X, key * by, key) or key / by.
RescaleOp(d, op, X) ==
    [d EXCEPT ![op.key] =
        [i \in DOMAIN @ |->
            where(X[i],
                  IF op.op = "mul" THEN VMul(@[i], VAtom(KsAtom(op.by)))
                  ELSE VDiv(@[i], VAtom(KsAtom(op.by))),
                  @[i])]]

RECURSIVE RescaleOps(_, _, _, _)
RescaleOps(ops, j, X, d) ==
    IF j > Len(ops) THEN d
    ELSE RescaleOps(ops, j + 1, X, RescaleOp(d, ops[j], X))

RECURSIVE Rescale(_, _, _)
Rescale(parXtype, b, d) ==
    IF b > Len(Rescalings) THEN d
    ELSE LET X == [i \in DOMAIN parXtype |-> parXtype[i] = Rescalings[b].X]
         IN  Rescale(parXtype, b + 1,
                IF \E i \in DOMAIN X : X[i]
                THEN RescaleOps(Rescalings[b].ops, 1, X, d) ELSE d)

\* dcore_dparX__parY on a batch: parXtype and parYtype are sequences of one
\* length.  The value maps each of the eight keys to its array.
dcore_dparX__parY(parXtype, parYtype) ==
    LET n == Len(parXtype)
        nans == [i \in 1..n |-> VNaN]
        st0 == [env |-> <<>>, err |-> FALSE,
                d |-> [key \in {"TA", "TC", "PH", "FC", "CARB", "HCO3"} |->
                          nans]]
        st1 == RunShared(parXtype, parYtype, 1, st0)
        st2 == RunCase(parXtype, parYtype, 1, st1)
        st3 == AssignOuter(parXtype, parYtype, 1, st2)
        dPC == [i \in 1..n |-> VDiv(st3.d["FC"][i], VAtom(KsAtom("FugFac")))]
        dCO2 == [i \in 1..n |-> VMul(st3.d["FC"][i], VAtom(KsAtom("K0")))]
        d8 == ("PC" :> dPC) @@ ("CO2" :> dCO2) @@ st3.d
    IN  IF st3.err THEN Raised("UnboundLocalError")
        ELSE Returned(Rescale(parXtype, 1, d8))

(***************************************************************************)
(* uncertainty.py: inputs.                                                 *)
(*                                                                         *)
(* grads_of and grads_wrt are each a string or a list of strings: [str |-> *)
(* TRUE, v |-> <<name>>] or [str |-> FALSE, v |-> list].  The values of    *)
(* co2args are counted in steps of dx from the value co2dict holds (0).    *)
(* engine.gradables and engine._CO2SYS are not part of this module: the    *)
(* former is a list of output keys given with the call, the latter an      *)
(* opaque function whose calls are recorded with the arguments passed.     *)
(***************************************************************************)
can_grad_wrt ==
    <<"PAR1", "PAR2", "SAL", "TEMPIN", "TEMPOUT", "PRESIN", "PRESOUT",
      "SI", "PO4", "NH3", "H2S">>

co2argnames ==
    <<"PAR1", "PAR2", "PAR1TYPE", "PAR2TYPE", "SAL", "TEMPIN", "TEMPOUT",
      "PRESIN", "PRESOUT", "SI", "PO4", "NH3", "H2S", "pHSCALEIN",
      "K1K2CONSTANTS", "KSO4CONSTANT", "KFCONSTANT", "BORON", "buffers_mode",
      "KSO4CONSTANTS">>

Range(seq) == {seq[i] : i \in DOMAIN seq}

Str(name) == [str |-> TRUE, v |-> <<name>>]
List(names) == [str |-> FALSE, v |-> names]

\* x in lst, for x a string or a list and lst a list of strings: a list is
\* never equal to a string.
InList(x, lst) == x.str /\ x.v[1] \in Range(lst)

\* Lines 41-49: [ok, grads_wrt] after the checks of grads_wrt.
CheckWrt(grads_of, grads_wrt) ==
    IF grads_wrt.str
    THEN IF ~((grads_wrt.v[1] = "all") \/ InList(grads_of, can_grad_wrt))
         THEN [ok |-> FALSE, v |-> <<>>]
         ELSE LET lst == IF grads_wrt.v[1] = "all" THEN can_grad_wrt
                         ELSE <<grads_wrt.v[1]>>
              IN  [ok |-> Range(lst) \subseteq Range(can_grad_wrt), v |-> lst]
    ELSE [ok |-> Range(grads_wrt.v) \subseteq Range(can_grad_wrt),
          v |-> grads_wrt.v]

\* CheckOf without its assertions.
CheckOf_unchecked(grads_of, gradables) ==
    [ok |-> TRUE,
     v |-> IF grads_of.str
           THEN (IF grads_of.v[1] = "all" THEN gradables
                 ELSE <<grads_of.v[1]>>)
           ELSE grads_of.v]

\* Lines 50-56: [ok, grads_of] after the checks of grads_of.
CheckOf(grads_of, gradables) ==
    IF grads_of.str
    THEN IF ~((grads_of.v[1] = "all") \/ InList(grads_of, gradables))
         THEN [ok |-> FALSE, v |-> <<>>]
         ELSE LET lst == IF grads_of.v[1] = "all" THEN gradables
                         ELSE <<grads_of.v[1]>>
              IN  [ok |-> Range(lst) \subseteq Range(gradables), v |-> lst]
    ELSE [ok |-> Range(grads_of.v) \subseteq Range(gradables),
          v |-> grads_of.v]

NoFrame ==
    [pc |-> "none", grads_of |-> <<>>, grads_wrt |-> <<>>, gi |-> 0, oi |-> 0,
     co2args |-> <<>>, co2deriv |-> <<>>, ncalls |-> 0, lastcalls |-> <<>>]

\* The argument co2dict: every entry is written as its offset from its own
\* value, in units of dx = 1e-8, so every entry is 0.
co2dict == [a \in Range(co2argnames) |-> 0]

\* Lines 28-82: the checks, co2args and the empty co2deriv.
inputs_enter(grads_of, grads_wrt, gradables) ==
    LET wrt == CheckWrt(grads_of, grads_wrt)
        of == CheckOf(grads_of, gradables)
    IN  IF ~wrt.ok \/ ~of.ok
        THEN [NoFrame EXCEPT !.pc = "raised"]
        ELSE [NoFrame EXCEPT
                 !.pc = "grad", !.grads_of = of.v, !.grads_wrt = wrt.v,
                 !.gi = 1,
                 !.co2args = [a \in Range(co2argnames) |-> co2dict[a]]]

\* kfunc(v, co2args) (lines 89-91) on st: co2args[grad] = v, then the call of
\* engine._CO2SYS(**co2args), recorded, and the lookup of output in what it
\* returned.
kfunc(st, grad, output, v, gradables) ==
    LET passed == [st.co2args EXCEPT ![grad] = v]
    IN  [st EXCEPT !.co2args = passed,
                   !.ncalls = @ + 1,
                   !.lastcalls = Append(@, passed),
                   !.pc = IF output \in Range(gradables) THEN @ ELSE "raised"]

\* scipy.misc.derivative(kfunc, x0, dx=1e-8, args=[co2args]) with its default
\* order 3: kfunc at x0 - dx, x0 and x0 + dx, in this order.
derivative(st, grad, output, x0, gradables) ==
    LET s1 == kfunc([st EXCEPT !.lastcalls = <<>>], grad, output, x0 - 1,
                    gradables)
        s2 == IF s1.pc = "raised" THEN s1
              ELSE kfunc(s1, grad, output, x0, gradables)
        s3 == IF s2.pc = "raised" THEN s2
              ELSE kfunc(s2, grad, output, x0 + 1, gradables)
    IN  s3

\* What is stored for a derivative: the arguments of the two calls whose
\* results are subtracted.
Difference(st) == [lo |-> st.lastcalls[1], hi |-> st.lastcalls[3]]

Init ==
    /\ fn = "none"
    /\ args = <<>>
    /\ ret = <<>>
    /\ frame = NoFrame

Call_pH2allscales ==
    /\ fn = "none"
    /\ \E n \in 1..MaxBatch :
       \E pHin \in [1..n -> PHValues], pHScale \in [1..n -> ScaleTags],
          TSO4 \in Positives, KSO4 \in Positives, TF \in Positives,
          KF \in Positives, fH \in Positives :
          LET totals == [TSO4 |-> RInt(TSO4), TF |-> RInt(TF)]
              equilibria == [KSO4 |-> RInt(KSO4), KF |-> RInt(KF),
                             fH |-> RInt(fH)]
              pH == [i \in 1..n |-> Num(pHin[i])]
          IN  /\ fn' = "pH2allscales"
              /\ args' = [pH |-> pH, pHScale |-> pHScale, totals |-> totals,
                          equilibria |-> equilibria]
              /\ ret' = pH2allscales(pH, pHScale, totals, equilibria)
              /\ UNCHANGED frame

Call_options_old2new ==
    /\ fn = "none"
    /\ \E KSO4CONSTANTS \in SeqsUpTo(OptionCodes, MaxLen) :
          /\ fn' = "options_old2new"
          /\ args' = [KSO4CONSTANTS |-> KSO4CONSTANTS]
          /\ ret' = options_old2new(KSO4CONSTANTS)
          /\ UNCHANGED frame

Call_options_new2old ==
    /\ fn = "none"
    /\ \E KSO4CONSTANT \in SeqsUpTo(PairCodes, MaxLen),
          BORON \in SeqsUpTo(PairCodes, MaxLen) :
          /\ fn' = "options_new2old"
          /\ args' = [KSO4CONSTANT |-> KSO4CONSTANT, BORON |-> BORON]
          /\ ret' = options_new2old(KSO4CONSTANT, BORON)
          /\ UNCHANGED frame

Call_dcore_dparX__parY ==
    /\ fn = "none"
    /\ \E b \in TypeBatches :
          LET parXtype == [i \in DOMAIN b |-> b[i][1]]
              parYtype == [i \in DOMAIN b |-> b[i][2]]
          IN  /\ fn' = "dcore_dparX__parY"
              /\ args' = [parXtype |-> parXtype, parYtype |-> parYtype]
              /\ ret' = dcore_dparX__parY(parXtype, parYtype)
              /\ UNCHANGED frame

NextDcore ==
    \/ Call_dcore_dparX__parY

SpecDcore == Init /\ [][NextDcore]_vars

\* The names and keys tried, and the lists engine.gradables may be.
WrtNames == {"PAR1", "SAL", "speed"}
OfNames == {"pHin", "TCO2", "colour"}
GradableLists == {<<"pHin", "TCO2">>, <<"pHin", "TCO2", "SAL">>}
Requests(names, single) ==
    {Str(x) : x \in single \cup {"all"}}
       \cup {List(l) : l \in SeqsUpTo(names, MaxGrads)}

\* inputs is called: lines 28-82.
Call_inputs ==
    /\ fn = "none"
    /\ \E gradables \in GradableLists,
          grads_of \in Requests(OfNames, OfNames \cup {"SAL"}),
          grads_wrt \in Requests(WrtNames, WrtNames) :
          LET st == inputs_enter(grads_of, grads_wrt, gradables)
          IN  /\ fn' = "inputs"
              /\ args' = [grads_of |-> grads_of, grads_wrt |-> grads_wrt,
                          gradables |-> gradables]
              /\ frame' = st
              /\ ret' = IF st.pc = "raised" THEN Raised("AssertionError")
                        ELSE <<>>

\* The head of the outer loop (lines 83-85): the next grad gets an empty
\* mapping.
inputs_grad ==
    /\ fn = "inputs" /\ frame.pc = "grad"
    /\ frame.gi <= Len(frame.grads_wrt)
    /\ frame' = [frame EXCEPT
                    !.co2deriv = (frame.grads_wrt[frame.gi] :> <<>>) @@ @,
                    !.pc = "output", !.oi = 1]
    /\ UNCHANGED <<fn, args, ret>>

\* One pass of the inner loop (lines 87-95): the derivative of one output.
inputs_output ==
    /\ fn = "inputs" /\ frame.pc = "output"
    /\ frame.oi <= Len(frame.grads_of)
    /\ LET grad == frame.grads_wrt[frame.gi]
           output == frame.grads_of[frame.oi]
           st == derivative(frame, grad, output, frame.co2args[grad],
                            args.gradables)
       IN  IF st.pc = "raised"
           THEN /\ frame' = st
                /\ ret' = Raised("KeyError")
           ELSE /\ frame' = [st EXCEPT
                               !.co2deriv[grad] =
                                   (output :> Difference(st)) @@ @,
                               !.oi = @ + 1]
                /\ UNCHANGED ret
    /\ UNCHANGED <<fn, args>>

\* The inner loop is over: back to the head of the outer loop.
inputs_nextgrad ==
    /\ fn = "inputs" /\ frame.pc = "output"
    /\ frame.oi > Len(frame.grads_of)
    /\ frame' = [frame EXCEPT !.pc = "grad", !.gi = @ + 1]
    /\ UNCHANGED <<fn, args, ret>>

\* The outer loop is over: return co2deriv (line 96).
inputs_return ==
    /\ fn = "inputs" /\ frame.pc = "grad"
    /\ frame.gi > Len(frame.grads_wrt)
    /\ frame' = [frame EXCEPT !.pc = "returned"]
    /\ ret' = Returned(frame.co2deriv)
    /\ UNCHANGED <<fn, args>>

NextInputs ==
    \/ Call_inputs
    \/ inputs_grad
    \/ inputs_output
    \/ inputs_nextgrad
    \/ inputs_return

SpecInputs == Init /\ [][NextInputs]_vars

(***************************************************************************)
(* The equilibrium solver (PyCO2SYS.solve), whose code is not among the    *)
(* sources: the state machine of the specification's section 4.3, with the *)
(* configuration flags that manuscript/compare_MATLABv3.py sets.  pH is    *)
(* counted from the initial guess in units of half the tolerance.  The     *)
(* Newton step residual / residual' is not computed: each iteration takes  *)
(* it, for each element, from Deltas.                                      *)
(***************************************************************************)
\* The steps tried: below the tolerance, at the tolerance, and above the
\* largest jump.
Deltas == {1, 2, 8}
pH_tolerance == 2
max_jump == 4

\* A pH value, and the not-a-number sentinel.
PHValue(v) == [nan |-> FALSE, v |-> v]
Sentinel == [nan |-> TRUE, v |-> 0]

\* Step limiting: a step above the largest jump is halved when
\* halve_big_jumps is set.
LimitStep(delta, halve_big_jumps) ==
    IF halve_big_jumps /\ delta > max_jump THEN delta \div 2 ELSE delta

\* The iteration cap is reached after iter iterations.
Exhausted_late(iter) == iter >= max_iterations + 1

Exhausted(iter) == iter >= max_iterations

\* What an element that did not converge is left with.
Failed_keep(pH) == [pH |-> pH, converged |-> FALSE]

Failed(pH) == [pH |-> Sentinel, converged |-> FALSE]

\* The solver's state for a batch of n elements, before it starts.
SolverInit(n) ==
    [pc |-> "INIT", iter |-> 0,
     status |-> [i \in 1..n |-> "INIT"],
     element |-> [i \in 1..n |-> [pH |-> PHValue(0), converged |-> FALSE]]]

\* One Newton-Raphson iteration on the batch.  With update_all_pH every
\* element is updated until the steps of all of them are below the
\* tolerance in one iteration; without it an element is frozen as soon as
\* its own step is.  At the iteration cap the elements that did not
\* converge get the sentinel.
Iterate(st, deltas, update_all_pH, halve_big_jumps) ==
    LET n == Len(st.status)
        step == [i \in 1..n |-> LimitStep(deltas[i], halve_big_jumps)]
        active == [i \in 1..n |-> st.status[i] = "ITERATING"]
        small == [i \in 1..n |-> step[i] < pH_tolerance]
        allsmall == \A i \in 1..n : active[i] => small[i]
        iter == st.iter + 1
        updated == [i \in 1..n |->
                       [pH |-> PHValue(st.element[i].pH.v + step[i]),
                        converged |-> small[i]]]
        ends == [i \in 1..n |->
                    IF update_all_pH THEN allsmall \/ Exhausted(iter)
                    ELSE small[i] \/ Exhausted(iter)]
    IN  [st EXCEPT
           !.iter = iter,
           !.status = [i \in 1..n |->
                          IF ~active[i] THEN st.status[i]
                          ELSE IF ~ends[i] THEN "ITERATING"
                          ELSE IF small[i] THEN "CONVERGED"
                          ELSE "MAX_ITER_EXCEEDED"],
           !.element = [i \in 1..n |->
                           IF ~active[i] THEN st.element[i]
                           ELSE IF ends[i] /\ ~small[i]
                           THEN Failed(updated[i].pH)
                           ELSE updated[i]]]

Terminal == {"CONVERGED", "MAX_ITER_EXCEEDED"}

\* The solver is called on a batch.
Call_solve ==
    /\ fn = "none"
    /\ \E n \in 1..MaxSolve, update_all_pH \in BOOLEAN,
          halve_big_jumps \in BOOLEAN :
          /\ fn' = "solve"
          /\ args' = [n |-> n, update_all_pH |-> update_all_pH,
                      halve_big_jumps |-> halve_big_jumps]
          /\ frame' = SolverInit(n)
          /\ ret' = <<>>

\* INIT -> ITERATING, for every element.
solve_start ==
    /\ fn = "solve" /\ frame.pc = "INIT"
    /\ frame' = [frame EXCEPT
                    !.pc = "ITERATING",
                    !.status = [i \in DOMAIN @ |-> "ITERATING"]]
    /\ UNCHANGED <<fn, args, ret>>

\* One iteration, while some element is ITERATING.
solve_iterate ==
    /\ fn = "solve" /\ frame.pc = "ITERATING"
    /\ \E i \in DOMAIN frame.status : frame.status[i] = "ITERATING"
    /\ \E deltas \in [1..args.n -> Deltas] :
          frame' = Iterate(frame, deltas, args.update_all_pH,
                           args.halve_big_jumps)
    /\ UNCHANGED <<fn, args, ret>>

\* Every element is in a terminal state: the call returns the pH values and
\* the convergence flags.
solve_return ==
    /\ fn = "solve" /\ frame.pc = "ITERATING"
    /\ \A i \in DOMAIN frame.status : frame.status[i] \in Terminal
    /\ frame' = [frame EXCEPT !.pc = "DONE"]
    /\ ret' = Returned(frame.element)
    /\ UNCHANGED <<fn, args>>

NextSolver ==
    \/ Call_solve
    \/ solve_start
    \/ solve_iterate
    \/ solve_return

SpecSolver == Init /\ [][NextSolver]_vars

\* The solver's loop runs on until it returns.
SpecSolverFair == Init /\ [][NextSolver]_vars /\ WF_vars(NextSolver)

Call_flattenfirst ==
    /\ fn = "none"
    /\ \E n \in FirstCounts :
       \E arglist \in [1..n -> SeqsUpTo(Elements, MaxSize)] :
          /\ fn' = "flattenfirst"
          /\ args' = [args |-> arglist]
          /\ ret' = flattenfirst(arglist)
          /\ UNCHANGED frame

Call_flattenafter ==
    /\ fn = "none"
    /\ \E n \in AfterCounts, npts \in 0..MaxSize :
       \E arglist \in [1..n -> SeqsUpTo(Elements, MaxSize)] :
          /\ fn' = "flattenafter"
          /\ args' = [args |-> arglist, npts |-> npts]
          /\ ret' = flattenafter(arglist, npts)
          /\ UNCHANGED frame

Call_flattentext ==
    /\ fn = "none"
    /\ \E n \in AfterCounts, npts \in 0..MaxSize :
       \E arglist \in [1..n -> SeqsUpTo(Texts, MaxSize)] :
          /\ fn' = "flattentext"
          /\ args' = [args |-> arglist, npts |-> npts]
          /\ ret' = flattentext(arglist, npts)
          /\ UNCHANGED frame

\* The calls of the flatten functions and of their caller in convert.py.
NextFlatten ==
    \/ Call_flattenfirst
    \/ Call_flattenafter
    \/ Call_flattentext
    \/ Call_options_new2old

SpecFlatten == Init /\ [][NextFlatten]_vars

NextConvert ==
    \/ Call_pH2allscales
    \/ Call_options_old2new
    \/ Call_options_new2old

SpecConvert == Init /\ [][NextConvert]_vars

(***************************************************************************)
(* Properties of convert.py, checked under SpecConvert.                    *)
(***************************************************************************)
LegalOld(a) == \A i \in DOMAIN a : a[i] \in 1..4
LegalNew(a) == \A i \in DOMAIN a : a[i] \in 1..2

\* C1: the constant-set selector is a bijection between the legacy codes
\* 1..4 and the pairs {1,2} x {1,2}: options_new2old undoes options_old2new
\* and options_old2new undoes options_new2old, element by element, on arrays
\* of any length, keeping order and length.
C1_SelectorBijection ==
    /\ (fn = "options_old2new" /\ LegalOld(args.KSO4CONSTANTS)) =>
          /\ ret.raised = "none"
          /\ Len(ret.value[1]) = Len(args.KSO4CONSTANTS)
          /\ Len(ret.value[2]) = Len(args.KSO4CONSTANTS)
          /\ LegalNew(ret.value[1]) /\ LegalNew(ret.value[2])
          /\ options_new2old(ret.value[1], ret.value[2])
                = Returned(args.KSO4CONSTANTS)
    /\ (/\ fn = "options_new2old"
        /\ Len(args.KSO4CONSTANT) = Len(args.BORON)
        /\ LegalNew(args.KSO4CONSTANT) /\ LegalNew(args.BORON)) =>
          /\ ret.raised = "none"
          /\ Len(ret.value) = Len(args.BORON)
          /\ LegalOld(ret.value)
          /\ options_old2new(ret.value)
                = Returned(<<args.KSO4CONSTANT, args.BORON>>)

\* C1's case: an array of two different pairs was converted to legacy codes.
C1_Witness ==
    /\ fn = "options_new2old"
    /\ args.KSO4CONSTANT = <<2, 1>>
    /\ args.BORON = <<1, 2>>
    /\ ret = Returned(<<2, 3>>)

\* The factor the documentation of pH2allscales gives for a scale tag.
ScaleLog(tag, FREEtoTOT, SWStoTOT, fH) ==
    CASE tag = 1 -> Num(0)
      [] tag = 2 -> Log10(SWStoTOT)
      [] tag = 3 -> Log10(FREEtoTOT)
      [] tag = 4 -> Log10(RDiv(SWStoTOT, fH))

\* C2: pH2allscales subtracts from each pH the factor of its scale tag (0,
\* log10(SWStoTOT), log10(FREEtoTOT), log10(SWStoTOT/fH) for tags 1, 2, 3, 4)
\* to get pH_total, and returns (pH_total, pH_seawater, pH_free, pH_NBS),
\* each of the last three being pH_total plus the log-ratio of its scale.
C2_AllScales ==
    fn = "pH2allscales" =>
        \A i \in DOMAIN args.pH :
            args.pHScale[i] \in 1..4 =>
                LET fH == args.equilibria.fH
                    tot == PSub(args.pH[i],
                                ScaleLog(args.pHScale[i], ret.FREEtoTOT,
                                         ret.SWStoTOT, fH))
                IN  /\ Len(ret.result) = 4
                    /\ ret.result[1][i] = tot
                    /\ ret.result[2][i] = PAdd(tot, Log10(ret.SWStoTOT))
                    /\ ret.result[3][i] = PAdd(tot, Log10(ret.FREEtoTOT))
                    /\ ret.result[4][i]
                          = PAdd(tot, Log10(RDiv(ret.SWStoTOT, fH)))

\* C2's case: a pH given on the NBS scale came back unchanged on the NBS
\* scale and different on each of the other three.
C2_Witness ==
    /\ fn = "pH2allscales"
    /\ \E i \in DOMAIN args.pH :
          /\ args.pHScale[i] = 4
          /\ ret.result[4][i] = args.pH[i]
          /\ ret.result[1][i] # args.pH[i]
          /\ ret.result[2][i] # ret.result[1][i]
          /\ ret.result[3][i] # ret.result[2][i]

\* C3 as stated: FREEtoTOT = 1 + TSO4/KSO4 and the SWStoTOT of pH2allscales
\* equals FREEtoTOT + TF/KF.
C3_Original ==
    fn = "pH2allscales" =>
        /\ ret.FREEtoTOT
              = RAdd(RInt(1), RDiv(args.totals.TSO4, args.equilibria.KSO4))
        /\ ret.SWStoTOT
              = RAdd(ret.FREEtoTOT, RDiv(args.totals.TF, args.equilibria.KF))

\* C3, amended: FREEtoTOT = 1 + TSO4/KSO4 and the SWStoTOT of pH2allscales
\* equals FREEtoTOT / (FREEtoTOT + TF/KF).
C3_Ratios ==
    fn = "pH2allscales" =>
        /\ ret.FREEtoTOT
              = RAdd(RInt(1), RDiv(args.totals.TSO4, args.equilibria.KSO4))
        /\ ret.SWStoTOT
              = RDiv(ret.FREEtoTOT,
                     RAdd(ret.FREEtoTOT,
                          RDiv(args.totals.TF, args.equilibria.KF)))

\* C3's case: TSO4/KSO4 = 3 and TF/KF = 1, giving FREEtoTOT = 4 and
\* SWStoTOT = 4/5.
C3_Witness ==
    /\ fn = "pH2allscales"
    /\ RDiv(args.totals.TSO4, args.equilibria.KSO4) = <<3, 1>>
    /\ RDiv(args.totals.TF, args.equilibria.KF) = <<1, 1>>
    /\ ret.FREEtoTOT = <<4, 1>>
    /\ ret.SWStoTOT = <<4, 5>>

AllTagsValid == \A i \in DOMAIN args.pHScale : args.pHScale[i] \in 1..4

\* C4: the component of the result on the input's own scale is the input
\* pH, and feeding the scale-b component back in as an input on scale b
\* returns the same four values, for every scale a of the input and every
\* scale b (same totals and equilibria).
C4_RoundTrip ==
    (fn = "pH2allscales" /\ AllTagsValid) =>
        /\ \A i \in DOMAIN args.pH :
              ret.result[args.pHScale[i]][i] = args.pH[i]
        /\ \A b \in 1..4 :
              pH2allscales(ret.result[b], [i \in DOMAIN args.pH |-> b],
                           args.totals, args.equilibria).result
                 = ret.result

\* C4's case: a pH given on the Free scale, whose Total, Seawater and NBS
\* values all differ from it, and whose NBS value converts back to it.
C4_Witness ==
    /\ fn = "pH2allscales"
    /\ AllTagsValid
    /\ \E i \in DOMAIN args.pH :
          /\ args.pHScale[i] = 3
          /\ ret.result[1][i] # args.pH[i]
          /\ ret.result[2][i] # args.pH[i]
          /\ ret.result[4][i] # args.pH[i]
          /\ pH2allscales(ret.result[4], [j \in DOMAIN args.pH |-> 4],
                          args.totals, args.equilibria).result[3][i]
                = args.pH[i]

(***************************************************************************)
(* Properties of dcore_dparX__parY, checked under SpecDcore.               *)
(***************************************************************************)
\* The core role a type code names; 4, 5 and 8 all name the CO2 role.
Role(code) ==
    CASE code = 1 -> "TA" [] code = 2 -> "TC" [] code = 3 -> "PH"
      [] code \in {4, 5, 8} -> "FC" [] code = 6 -> "CARB" [] code = 7 -> "HCO3"

\* The key of the result that holds the derivative of a code's own variable.
KeyOf(code) ==
    CASE code = 1 -> "TA" [] code = 2 -> "TC" [] code = 3 -> "PH"
      [] code = 4 -> "PC" [] code = 5 -> "FC" [] code = 6 -> "CARB"
      [] code = 7 -> "HCO3" [] code = 8 -> "CO2"

\* The keys of the result that belong to a role.
KeysOfRole(role) == IF role = "FC" THEN {"PC", "FC", "CO2"} ELSE {role}

AllKeys == {"TA", "TC", "PH", "PC", "FC", "CARB", "HCO3", "CO2"}

FugFac == VAtom(KsAtom("FugFac"))
K0 == VAtom(KsAtom("K0"))

\* C5: for every parXtype and parYtype in 1..8 the derivative of parX with
\* respect to itself is exactly 1 in the returned mapping (key TA, TC, PH,
\* PC, FC, CARB, HCO3, CO2 for codes 1..8), also after the final rescaling.
C5_SelfDerivativeIsOne ==
    fn = "dcore_dparX__parY" =>
        /\ ret.raised = "none"
        /\ \A i \in DOMAIN args.parXtype :
              ret.value[KeyOf(args.parXtype[i])][i] = VOne

\* C5's case: parX is pCO2, so the pCO2 derivative went through the division
\* by FugFac and the rescaling by FugFac, and the fCO2 derivative is FugFac.
C5_Witness ==
    /\ fn = "dcore_dparX__parY"
    /\ \E i \in DOMAIN args.parXtype :
          /\ args.parXtype[i] = 4
          /\ args.parYtype[i] = 1
          /\ ret.value["PC"][i] = VOne
          /\ ret.value["FC"][i] = FugFac

\* C6: whenever parXtype and parYtype name different roles, the derivative
\* of the held-fixed parY with respect to parX is exactly 0 in the returned
\* mapping; for parYtype 4, 5 or 8 the PC, FC and CO2 entries are all 0.
C6_HeldFixedIsZero ==
    fn = "dcore_dparX__parY" =>
        /\ ret.raised = "none"
        /\ \A i \in DOMAIN args.parXtype :
              Role(args.parXtype[i]) # Role(args.parYtype[i]) =>
                 \A key \in KeysOfRole(Role(args.parYtype[i])) :
                    ret.value[key][i] = VZero

\* C6's case: parX is CO2(aq), rescaled by 1/K0, and parY is TA, next to an
\* element whose parY is pCO2.
C6_Witness ==
    /\ fn = "dcore_dparX__parY"
    /\ \E i, j \in DOMAIN args.parXtype :
          /\ args.parXtype[i] = 8 /\ args.parYtype[i] = 1
          /\ ret.value["TA"][i] = VZero
          /\ ret.value["TC"][i].k = "val"
          /\ args.parXtype[j] = 2 /\ args.parYtype[j] = 4
          /\ ret.value["PC"][j] = VZero /\ ret.value["CO2"][j] = VZero

\* The derivative in pH, at fixed Y, of the closed-form relation giving the
\* variable of a key from (Y, pH); pCO2 is fCO2 / FugFac and CO2(aq) is
\* fCO2 * K0.
DpH(key, roleY) ==
    LET D(role) == VAtom(Atom(role, {roleY, "PH"}, "PH"))
    IN  CASE key = "PC" -> VDiv(D("FC"), FugFac)
          [] key = "CO2" -> VMul(D("FC"), K0)
          [] OTHER -> D(key)

ImplicitCase(x, y) ==
    /\ Role(x) # Role(y)
    /\ Role(x) # "PH" /\ Role(y) # "PH"
    /\ Role(x) \in {"TA", "TC"} \/ Role(y) \in {"TA", "TC"}

\* C7: where parX and parY name different roles, neither is pH and one is TA
\* or TC, every output O other than parX and parY is returned as
\* (dO/dpH at fixed Y) / (dX/dpH at fixed Y) and PH as 1 / (dX/dpH at fixed
\* Y); where parX is pH, O is returned as dO/dpH at fixed Y.
C7_ImplicitQuotient ==
    fn = "dcore_dparX__parY" =>
        /\ ret.raised = "none"
        /\ \A i \in DOMAIN args.parXtype :
              LET x == args.parXtype[i]
                  y == args.parYtype[i]
                  others == AllKeys \ (KeysOfRole(Role(x)) \cup
                                       KeysOfRole(Role(y)))
              IN  /\ ImplicitCase(x, y) =>
                        /\ ret.value["PH"][i]
                              = VDiv(VOne, DpH(KeyOf(x), Role(y)))
                        /\ \A key \in others \ {"PH"} :
                              ret.value[key][i]
                                 = VDiv(DpH(key, Role(y)),
                                        DpH(KeyOf(x), Role(y)))
                  /\ (x = 3 /\ y # 3) =>
                        \A key \in others :
                           ret.value[key][i] = DpH(key, Role(y))

\* C7's case: parX is pCO2 and parY is TC; the TA derivative is
\* dTA/dpH * FugFac / dfCO2/dpH, both at fixed TC.
C7_Witness ==
    /\ fn = "dcore_dparX__parY"
    /\ \E i \in DOMAIN args.parXtype :
          /\ args.parXtype[i] = 4 /\ args.parYtype[i] = 2
          /\ ret.value["TA"][i]
                = VMul(VDiv(VAtom(Atom("TA", {"TC", "PH"}, "PH")),
                            VAtom(Atom("FC", {"TC", "PH"}, "PH"))),
                       FugFac)
          /\ ret.value["TA"][i].k = "val"

\* The batch with every code `from` of parXtype replaced by 5 (fCO2).
AsFC(parXtype, from) ==
    [i \in DOMAIN parXtype |-> IF parXtype[i] = from THEN 5 ELSE parXtype[i]]

\* C8: in every result PC = FC / FugFac and CO2 = FC * K0; and each of the
\* eight derivatives returned for parXtype 4 is FugFac times, and for
\* parXtype 8 is 1/K0 times, the one returned for parXtype 5 with the same
\* parYtype (an entry left at not-a-number is not-a-number in both).
C8_Rescalings ==
    fn = "dcore_dparX__parY" =>
        /\ ret.raised = "none"
        /\ \A i \in DOMAIN args.parXtype :
              /\ ret.value["PC"][i] = VDiv(ret.value["FC"][i], FugFac)
              /\ ret.value["CO2"][i] = VMul(ret.value["FC"][i], K0)
        /\ LET of4 == dcore_dparX__parY(AsFC(args.parXtype, 4),
                                        args.parYtype).value
               of8 == dcore_dparX__parY(AsFC(args.parXtype, 8),
                                        args.parYtype).value
           IN  \A i \in DOMAIN args.parXtype : \A key \in AllKeys :
                  /\ args.parXtype[i] = 4 =>
                        ret.value[key][i] = VMul(of4[key][i], FugFac)
                  /\ args.parXtype[i] = 8 =>
                        ret.value[key][i] = VDiv(of8[key][i], K0)

\* C8's case: parX is CO2(aq) and parY is CARB: the TA derivative is the
\* derivative of TA from (fCO2, CARB) in fCO2, divided by K0.
C8_Witness ==
    /\ fn = "dcore_dparX__parY"
    /\ \E i \in DOMAIN args.parXtype :
          /\ args.parXtype[i] = 8 /\ args.parYtype[i] = 6
          /\ ret.value["TA"][i]
                = VDiv(VAtom(Atom("TA", {"FC", "CARB"}, "FC")), K0)
          /\ ret.value["PC"][i] = VDiv(VOne, VMul(K0, FugFac))

(***************************************************************************)
(* Properties of uncertainty.inputs, checked under SpecInputs.             *)
(***************************************************************************)
\* A request names something that is not supported.
InvalidRequest(x, supported) ==
    IF x.str THEN x.v[1] # "all" /\ x.v[1] \notin Range(supported)
    ELSE \E i \in DOMAIN x.v : x.v[i] \notin Range(supported)

\* C9: when grads_wrt contains (or is) a name outside the eleven supported
\* inputs, or grads_of contains (or is) a key outside engine.gradables, the
\* call raises before engine._CO2SYS is called even once and returns no
\* mapping.
C9_EagerRejection ==
    (/\ fn = "inputs"
     /\ \/ InvalidRequest(args.grads_wrt, can_grad_wrt)
        \/ InvalidRequest(args.grads_of, args.gradables)) =>
        /\ frame.pc = "raised"
        /\ frame.ncalls = 0
        /\ frame.co2deriv = <<>>
        /\ ret = Raised("AssertionError")

\* C9's case: a list of inputs with an unsupported name in it, with valid
\* outputs, was rejected without a call of engine._CO2SYS.
C9_Witness ==
    /\ fn = "inputs"
    /\ args.grads_wrt = List(<<"PAR1", "speed">>)
    /\ args.grads_of = List(<<"pHin">>)
    /\ frame.pc = "raised"
    /\ frame.ncalls = 0

\* C10: with grads_wrt a single supported input name and any valid grads_of
\* the call is not rejected, and the mapping it returns has exactly one
\* entry, keyed by that name, holding one derivative per requested output;
\* grads_wrt = "all" gives one entry for each of the eleven inputs.
C10_SingleNameAccepted ==
    (/\ fn = "inputs"
     /\ args.grads_wrt.str
     /\ ~InvalidRequest(args.grads_wrt, can_grad_wrt)
     /\ ~InvalidRequest(args.grads_of, args.gradables)) =>
        /\ frame.pc # "raised"
        /\ frame.pc = "returned" =>
              /\ DOMAIN ret.value
                    = IF args.grads_wrt.v[1] = "all" THEN Range(can_grad_wrt)
                      ELSE {args.grads_wrt.v[1]}
              /\ \A g \in DOMAIN ret.value :
                    DOMAIN ret.value[g]
                       = IF args.grads_of.str
                         THEN (IF args.grads_of.v[1] = "all"
                               THEN Range(args.gradables)
                               ELSE {args.grads_of.v[1]})
                         ELSE Range(args.grads_of.v)

\* The calls of engine._CO2SYS made for the derivative that was computed
\* last: the loops stand after an output of the current grad.
AfterDerivative ==
    /\ fn = "inputs"
    /\ frame.pc = "output"
    /\ frame.oi > 1

\* C11: every call of engine._CO2SYS made while differentiating with respect
\* to input g passes every argument other than g with exactly the value it
\* has in co2dict, whatever was differentiated earlier in the same call.
C11_OnlyOneInputPerturbed ==
    AfterDerivative =>
        \A k \in DOMAIN frame.lastcalls :
            \A a \in Range(co2argnames) \ {frame.grads_wrt[frame.gi]} :
                frame.lastcalls[k][a] = co2dict[a]

\* C16: for every pair (g, output) whose derivative is stored, the finite
\* difference is centred on co2dict[g]: the two calls whose results are
\* subtracted pass co2dict[g] - dx and co2dict[g] + dx, however many outputs
\* were differentiated before.
C16_CentredOnOriginal ==
    fn = "inputs" =>
        \A g \in DOMAIN frame.co2deriv :
            \A output \in DOMAIN frame.co2deriv[g] :
                /\ frame.co2deriv[g][output].lo[g] = co2dict[g] - 1
                /\ frame.co2deriv[g][output].hi[g] = co2dict[g] + 1

(***************************************************************************)
(* Properties of the flatten functions, checked under SpecFlatten.         *)
(***************************************************************************)
\* The sizes of the arrays of a list.
Sizes(arglist) == {Len(arglist[k]) : k \in DOMAIN arglist}

\* C12: _flattenfirst raises its assertion exactly when the inputs have two
\* or more distinct sizes other than 1; _flattenafter and _flattentext raise
\* exactly when some input's size is neither 1 nor npts; options_new2old on
\* KSO4CONSTANT and BORON of different non-unit lengths raises that
\* assertion, whatever the codes, so no table lookup is made.
C12_LengthValidation ==
    /\ fn = "flattenfirst" =>
          /\ ret.raised \in {"none", "AssertionError"}
          /\ ret.raised = "AssertionError"
                <=> Cardinality(Sizes(args.args) \ {1}) >= 2
    /\ fn \in {"flattenafter", "flattentext"} =>
          /\ ret.raised \in {"none", "AssertionError"}
          /\ ret.raised = "AssertionError"
                <=> \E n \in Sizes(args.args) : n \notin {1, args.npts}
    /\ (/\ fn = "options_new2old"
        /\ Len(args.KSO4CONSTANT) # Len(args.BORON)
        /\ Len(args.KSO4CONSTANT) # 1
        /\ Len(args.BORON) # 1) =>
          ret = Raised("AssertionError")

\* C12's case: arrays of sizes 2 and 3, with a code that is in no table,
\* were rejected by the assertion and not by the lookup.
C12_Witness ==
    /\ fn = "options_new2old"
    /\ Len(args.KSO4CONSTANT) = 2
    /\ Len(args.BORON) = 3
    /\ args.BORON[1] \notin {1, 2}
    /\ ret = Raised("AssertionError")

\* C19: whenever _flattenfirst accepts its inputs, every vector it returns
\* has exactly npts elements, npts being the largest input size: inputs of
\* size 1 are repeated npts times and every other input is returned in
\* order; inputs of size 0 included.
C19_AllVectorsHaveNpts ==
    (fn = "flattenfirst" /\ ret.raised = "none") =>
        LET vectors == ret.value[1]
            npts == ret.value[2]
        IN  /\ npts = MaxOf(Sizes(args.args))
            /\ \A k \in DOMAIN args.args :
                  /\ Len(vectors[k]) = npts
                  /\ IF Len(args.args[k]) = 1
                     THEN \A i \in 1..npts : vectors[k][i] = args.args[k][1]
                     ELSE vectors[k] = args.args[k]

(***************************************************************************)
(* More properties of dcore_dparX__parY, checked under SpecDcore.          *)
(***************************************************************************)
\* What dcore_dparX__parY gives for each pair of type codes alone, as a
\* batch of one element.
Alone ==
    [x \in TypeCodes, y \in TypeCodes |-> dcore_dparX__parY(<<x>>, <<y>>)]

\* C13: for a batch with any mixture of (parXtype, parYtype) pairs, each of
\* the eight derivatives returned at index i equals the one returned when
\* the function is called on element i alone; the type codes at the other
\* indices change nothing, not even whether the call returns.
C13_BatchIndependence ==
    fn = "dcore_dparX__parY" =>
        \A i \in DOMAIN args.parXtype :
            LET single == Alone[args.parXtype[i], args.parYtype[i]]
            IN  /\ single.raised = ret.raised
                /\ ret.raised = "none" =>
                      \A key \in AllKeys :
                          ret.value[key][i] = single.value[key][1]

\* C13's case: a batch of two elements with different pairs of type codes
\* was returned, and its two elements got different derivatives.
C13_Witness ==
    /\ fn = "dcore_dparX__parY"
    /\ args.parXtype = <<1, 4>>
    /\ args.parYtype = <<2, 3>>
    /\ ret.raised = "none"
    /\ ret.value["HCO3"][1] # ret.value["HCO3"][2]
    /\ ret.value["HCO3"][1].k = "val"
    /\ ret.value["HCO3"][2].k = "val"

\* C17: for every batch with any mixture of ordered pairs of type codes,
\* dcore_dparX__parY never reads an intermediate derivative that was not
\* bound earlier in the same call: no read of an unbound local ends the
\* call, so it returns.
C17_NoUnboundRead ==
    fn = "dcore_dparX__parY" => ret.raised = "none"

\* C17's case: a batch was returned whose second element alone makes the
\* guards of the shared derivatives it uses true (HCO3 given with CARB),
\* and that element got derivatives built from them.
C17_Witness ==
    /\ fn = "dcore_dparX__parY"
    /\ args.parXtype = <<1, 7>>
    /\ args.parYtype = <<2, 6>>
    /\ ret.raised = "none"
    /\ \A key \in AllKeys \ {"HCO3", "CARB"} : ret.value[key][2].k = "val"

\* C18: for every element whose parXtype and parYtype name different roles
\* (codes 4, 5 and 8 share one role), all eight returned entries are
\* assigned and none is left at the preallocated not-a-number; for an
\* element whose two codes name the same role, exactly the entries of that
\* role (the self-derivative entries) are set and the others are left at
\* not-a-number.
C18_NoMissingCase ==
    (fn = "dcore_dparX__parY" /\ ret.raised = "none") =>
        \A i \in DOMAIN args.parXtype :
            LET x == args.parXtype[i]
                y == args.parYtype[i]
            IN  IF Role(x) # Role(y)
                THEN \A key \in AllKeys : ret.value[key][i].k # "nan"
                ELSE \A key \in AllKeys :
                        ret.value[key][i].k # "nan"
                           <=> key \in KeysOfRole(Role(x))

\* C18's case: a returned batch whose first element has codes of different
\* roles (CARB, HCO3), with its eight entries set, and whose second has two
\* codes of one role (pCO2, fCO2), with TA left at not-a-number.
C18_Witness ==
    /\ fn = "dcore_dparX__parY"
    /\ args.parXtype = <<6, 4>>
    /\ args.parYtype = <<7, 5>>
    /\ ret.raised = "none"
    /\ \A key \in AllKeys : ret.value[key][1].k # "nan"
    /\ ret.value["TA"][2].k = "nan"
    /\ ret.value["PC"][2].k = "val"

(***************************************************************************)
(* Properties of the equilibrium solver, checked under SpecSolver and      *)
(* SpecSolverFair.                                                         *)
(***************************************************************************)
AllTerminal ==
    fn = "solve" /\ \A i \in DOMAIN frame.status : frame.status[i] \in Terminal

\* C14: the solver always terminates.  From INIT every element of the batch
\* passes through ITERATING and reaches CONVERGED or MAX_ITER_EXCEEDED after
\* at most max_iterations iterations, for both settings of update_all_pH and
\* of halve_big_jumps; no element stays in ITERATING forever and no terminal
\* state is ever left.
C14_SolverTerminates ==
    /\ [](fn = "solve" => <>AllTerminal)
    /\ [](fn = "solve" => frame.iter <= max_iterations)
    /\ [][fn = "solve" =>
            \A i \in DOMAIN frame.status :
                /\ frame.status[i] \in Terminal =>
                      frame'.status[i] = frame.status[i]
                /\ frame.status[i] = "INIT" =>
                      frame'.status[i] \in {"INIT", "ITERATING"}
                /\ frame'.status[i] \in Terminal =>
                      frame.status[i] \in Terminal \cup {"ITERATING"}]_vars

\* C14's case: a batch of two elements has ended at the iteration cap, one
\* element CONVERGED and the other MAX_ITER_EXCEEDED.
C14_Witness ==
    /\ fn = "solve"
    /\ args.n = 2
    /\ frame.iter = max_iterations
    /\ frame.status = <<"CONVERGED", "MAX_ITER_EXCEEDED">>

\* C15: non-convergence is isolated per element and never fatal.  When the
\* solve of a batch has ended the call has returned without raising; every
\* element that did not converge carries the not-a-number sentinel and a
\* false convergence flag; every element that converged carries a pH and a
\* true flag, the pH it had when it converged: a converged element is not
\* touched by the iterations that follow.
C15_NonConvergenceIsolated ==
    /\ []((fn = "solve" /\ frame.pc = "DONE") =>
            /\ ret.raised = "none"
            /\ \A i \in DOMAIN frame.status :
                  IF frame.status[i] = "CONVERGED"
                  THEN /\ ret.value[i].converged
                       /\ ~ret.value[i].pH.nan
                  ELSE /\ frame.status[i] = "MAX_ITER_EXCEEDED"
                       /\ ~ret.value[i].converged
                       /\ ret.value[i].pH = Sentinel)
    /\ [][fn = "solve" =>
            \A i \in DOMAIN frame.status :
                frame.status[i] = "CONVERGED" =>
                    frame'.element[i] = frame.element[i]]_vars

\* C15's case: the call on a batch of two elements has returned, the first
\* element converged before the last iteration and the second never did.
C15_Witness ==
    /\ fn = "solve"
    /\ frame.pc = "DONE"
    /\ args.n = 2
    /\ ~args.update_all_pH
    /\ frame.status = <<"CONVERGED", "MAX_ITER_EXCEEDED">>
    /\ ret.value[1].pH = PHValue(1)
    /\ ret.value[2].pH = Sentinel

(***************************************************************************)
(* A further property of pH2allscales, checked under SpecConvert.          *)
(***************************************************************************)
\* C20: pH2allscales never raises on the scale tag.  For an element whose
\* pHScale is not one of 1, 2, 3, 4 the factor stays at not-a-number and all
\* four returned pH values of that element are not-a-number, while the
\* elements of the same batch with a valid tag get defined values: for
\* every tag in 1..4, with positive KSO4 and KF, all four are defined.
C20_InvalidTagIsNaN ==
    fn = "pH2allscales" =>
        /\ DOMAIN ret.result = 1..4
        /\ \A i \in DOMAIN args.pHScale :
              IF args.pHScale[i] \in 1..4
              THEN \A k \in 1..4 : ~ret.result[k][i].nan
              ELSE /\ ret.factor[i] = NaN
                   /\ \A k \in 1..4 : ret.result[k][i] = NaN

\* C20's case: a batch whose first element has a tag that names no scale
\* and whose second is on the Seawater scale; the first got not-a-number
\* and the second its value.
C20_Witness ==
    /\ fn = "pH2allscales"
    /\ args.pHScale = <<5, 2>>
    /\ ret.result[1][1] = NaN
    /\ ret.result[2][2] = args.pH[2]
    /\ ~ret.result[1][2].nan

=============================================================================
